---- MODULE Spec2Model ----
(***************************************************************************)
(* The coordinator of the multi-agent research example: the registry of    *)
(* workers, the StateManager task store, decomposeQuery, executeSubtasks   *)
(* and delegateTask, with the researcher and summarizer workers' POST /task *)
(* handlers as the servers that answer the delegations.                    *)
(*                                                                         *)
(* One action is one run of JavaScript between two await points: a request *)
(* handler runs without interruption until it awaits the fetch of          *)
(* delegateTask or the body of its response, and other requests are served *)
(* only while it waits.                                                    *)
(***************************************************************************)
EXTENDS Integers, Sequences, FiniteSets, TLC

\* ------------------------------------------------------------------ bounds

\* POST /research requests that carry a query (each creates one task).
MaxTasks == 1
\* Length of the subtask lists handed to executeSubtasks directly.
MaxSubtasks == 2
\* Priorities of the subtasks of those lists are 1..MaxPriority.
MaxPriority == 2
\* Minutes the clock is followed after time 0 and after the first hour.
MaxMinutes == 2
\* Agents registered with, and sessions joined at, the Next.js service.
MaxAgents == 2
MaxSessions == 2
\* Callers of AgentAuth.getToken in flight at once.
MaxCallers == 2
\* Register requests of the Next.js service whose body is awaited at once.
MaxReceived == 2
\* Minutes the clock of the worker is followed.
MaxClock == 10

\* ------------------------------------------------------------- JSON values

\* A JSON value (or JavaScript undefined) as the coordinator sees it: its
\* kind, the task id it carries and one text field.
Json(kind, task, text) == [kind |-> kind, task |-> task, text |-> text]

Undefined == Json("undefined", 0, "")
Null == Json("null", 0, "")
False == Json("false", 0, "")
Zero == Json("zero", 0, "")
\* {} as written in `results.research || {}`.
EmptyObject == Json("object", 0, "")
\* Some object a worker may answer that has no findings field.
OtherObject == Json("object", 0, "other")
\* { error: message }
ErrorObject(message) == Json("error", 0, message)

\* JavaScript truthiness, as used by `results[dep]`, `if (result)` and `||`.
Truthy(v) == v.kind \notin {"undefined", "null", "false", "zero"}

\* a || b
OrElse(a, b) == IF Truthy(a) THEN a ELSE b

\* ------------------------------------------------------------- the workers

ResearcherUrl == "http://localhost:4001"
SummarizerUrl == "http://localhost:4002"
\* Any other server a worker may register as its address.
OtherUrl == "http://other"

Types == {"research", "summarize"}

\* The registration requests of the model: the two workers' own start-up
\* registrations, and a registration under the researcher's name of another
\* server that lists both capabilities. A request is the JSON the workers
\* send: a name, a url and an array of capability strings (a set here, only
\* `includes` reads it).
Registrations ==
    { [name |-> "ResearcherAgent", url |-> ResearcherUrl,
       capabilities |-> {"search", "validate", "extract"}],
      [name |-> "SummarizerAgent", url |-> SummarizerUrl,
       capabilities |-> {"summarize", "condense", "format"}],
      [name |-> "ResearcherAgent", url |-> OtherUrl,
       capabilities |-> {"search", "summarize"}] }

AgentNames == {r.name : r \in Registrations}

\* The researcher's answer to POST /task: 200 { success, taskId, findings },
\* the findings being about the description with its prefix removed.
ResearcherBody(taskId, payload) == Json("findings", taskId, payload.description)

\* The summarizer's `subtask.previousResults?.research?.findings`.
findingsOf(payload) ==
    IF payload.previousResults["research"].kind = "findings"
    THEN payload.previousResults["research"]
    ELSE Undefined

\* The summarizer's answer to POST /task: 200 { success, taskId, summary }.
SummarizerBody(taskId, payload) == Json("summary", taskId, findingsOf(payload).text)

\* The status a server answers POST <url>/task with.
ServerStatus(url, payload) ==
    CASE url = ResearcherUrl -> {200}
      [] url = SummarizerUrl ->
            IF Truthy(findingsOf(payload)) THEN {200} ELSE {500}
      [] OTHER -> {200, 500}

\* The bodies response.json() may resolve to on a 2xx answer.
ServerBodies(url, taskId, payload) ==
    CASE url = ResearcherUrl -> {ResearcherBody(taskId, payload)}
      [] url = SummarizerUrl -> {SummarizerBody(taskId, payload)}
      [] OTHER -> {Null, False, Zero, OtherObject}

\* The messages fetch() rejects with: no connection, or AbortSignal.timeout.
FetchErrors == {"fetch failed", "The operation was aborted due to timeout"}

\* The messages response.json() rejects with: the timeout while the body is
\* read, and for a server that is not one of the two workers a body that is
\* not JSON.
JsonErrors(url) ==
    {"The operation was aborted due to timeout"}
        \cup (IF url = OtherUrl THEN {"Unexpected token"} ELSE {})

\* ------------------------------------------------------------------- state

VARIABLES
    agents,   \* coordinator: the `agents` Map, in insertion order
    tasks,    \* StateManager.tasks: task id -> task (ids are 1..Len(tasks))
    frames,   \* the call frame of each POST /research request, by task id
    sent,     \* per task: the ids of the subtasks POSTed to a worker, in order
    agentStatus, \* StateManager.agentStatus, in insertion order
    now,      \* Date.now(), in minutes
    updatedAt, \* per task: its updatedAt
    lastSeen, \* per entry of agentStatus: its lastSeen
    taskKeys, \* the keys of StateManager.tasks: the ids not deleted by cleanup
    response, \* the last response of a handler that answers in one step
    storageAgents,   \* Next.js service: storage.agents, in insertion order
    storageSessions, \* Next.js service: storage.sessions, in insertion order
    sessions, \* Next.js service: the `sessions` Map of the state route
    received, \* Next.js service: the register requests whose body is awaited
    token,    \* AgentAuth: this.token (0 is null)
    tokenExpiry, \* AgentAuth: this.tokenExpiry, in minutes (0 is null)
    calls,    \* AgentAuth: the position of each caller of getToken
    returned, \* AgentAuth: what each caller's last getToken gave
    thrown    \* the error of the last direct call of a StateManager method

apiVars == <<storageAgents, storageSessions, sessions>>

authVars == <<token, tokenExpiry, calls, returned>>

\* What no handler of the coordinator or of the Next.js service touches.
restVars == <<received, authVars, thrown>>

vars == <<agents, tasks, frames, sent, agentStatus, now, updatedAt, lastSeen,
          taskKeys, response, storageAgents, storageSessions, sessions,
          received, token, tokenExpiry, calls, returned, thrown>>

TaskIds == 1..Len(tasks)

\* The callers of getToken that may be in flight at once.
Callers == 1..MaxCallers

\* What getToken gave a caller: the token it returned (0 is null), whether
\* it came from the cache, whether the call threw; nothing yet.
NoToken == [token |-> 0, cached |-> FALSE, threw |-> FALSE]

NoResults == [ty \in Types |-> Undefined]
NoEntry == [present |-> FALSE, data |-> Undefined]
NoAgentResults == [n \in AgentNames |-> NoEntry]
NoPayload == [type |-> "", description |-> "", previousResults |-> NoResults]

NoReport == [findings |-> Undefined, summary |-> Undefined]

\* ------------------------------------------------- StateManager (state.js)

\* createTask: the new entry of the tasks Map.
createTask(taskId, taskData) ==
    [id |-> taskId, status |-> "pending", query |-> taskData.query,
     depth |-> taskData.depth, subtasks |-> <<>>, results |-> NoAgentResults,
     report |-> NoReport]

\* updateTask: { ...task, status, ...updates }; `updates` is {} or { report }.
updateTask(task, status, updates) ==
    [task EXCEPT !.status = status,
                 !.report = IF "report" \in DOMAIN updates
                            THEN updates.report ELSE @]

\* addSubtask: pushes { id: `${taskId}-${length}`, status: 'pending', ...subtask }.
addSubtask(task, subtask) ==
    [task EXCEPT !.subtasks =
        Append(@, [id |-> <<task.id, Len(task.subtasks)>>,
                   status |-> "pending",
                   type |-> subtask.type,
                   description |-> subtask.description,
                   capability |-> subtask.capability,
                   priority |-> subtask.priority,
                   dependsOn |-> subtask.dependsOn,
                   result |-> Undefined])]

\* task.subtasks.find(st => st.id === subtaskId): the position, 0 if none.
findSubtask(task, subtaskId) ==
    LET hits == {k \in 1..Len(task.subtasks) : task.subtasks[k].id = subtaskId}
    IN IF hits = {} THEN 0 ELSE CHOOSE k \in hits : \A j \in hits : k <= j

\* Mutant: a call with a result records it and returns before the status is set.
updateSubtask_KeepsStatus(task, subtaskId, status, result) ==
    LET k == findSubtask(task, subtaskId)
    IN IF Truthy(result)
       THEN [task EXCEPT !.subtasks[k].result = result]
       ELSE [task EXCEPT !.subtasks[k].status = status]

\* updateSubtask: sets the status, and the result only when it is truthy.
updateSubtask(task, subtaskId, status, result) ==
    LET k == findSubtask(task, subtaskId)
    IN [task EXCEPT !.subtasks[k].status = status,
                    !.subtasks[k].result = IF Truthy(result) THEN result ELSE @]

\* storeResult: task.results[agentName] = { data: result }.
storeResult(task, agentName, result) ==
    [task EXCEPT !.results[agentName] = [present |-> TRUE, data |-> result]]

\* StateManager.registerAgent: agentStatus.set(name, { name, status:
\* 'online', ...status }), in the place of the name or appended.
stateManagerRegisterAgent(statuses, agentName, status) ==
    LET entry == [name |-> agentName, status |-> "online", url |-> status.url,
                  capabilities |-> status.capabilities]
    IN IF \E k \in 1..Len(statuses) : statuses[k].name = agentName
       THEN [k \in 1..Len(statuses) |->
               IF statuses[k].name = agentName THEN entry ELSE statuses[k]]
       ELSE Append(statuses, entry)

\* --------------------------------------------- the coordinator (TESTING.md)

\* Mutant: a name that is already registered keeps its first registration.
registerAgent_KeepsFirst(ags, agentInfo) ==
    IF \E k \in 1..Len(ags) : ags[k].name = agentInfo.name
    THEN ags
    ELSE Append(ags, agentInfo)

\* registerAgent: agents.set(name, info) keeps the place of a name that is
\* already a key of the Map and appends a new one.
registerAgent(ags, agentInfo) ==
    IF \E k \in 1..Len(ags) : ags[k].name = agentInfo.name
    THEN [k \in 1..Len(ags) |->
            IF ags[k].name = agentInfo.name THEN agentInfo ELSE ags[k]]
    ELSE Append(ags, agentInfo)

\* Mutant: the filter is left out, every registered agent is a candidate.
findAgentsByCapability_AnyAgent(ags, capability) == ags

\* Mutant: only the workers whose status flag is online are candidates.
findAgentsByCapability_Online(ags, capability) ==
    SelectSeq(ags, LAMBDA agent :
        /\ capability \in agent.capabilities
        /\ \E k \in 1..Len(agentStatus) : /\ agentStatus[k].name = agent.name
                                           /\ agentStatus[k].status = "online")

\* findAgentsByCapability: the registered agents that list the capability,
\* in the Map's order.
findAgentsByCapability(ags, capability) ==
    SelectSeq(ags, LAMBDA agent : capability \in agent.capabilities)

\* Mutant: the summarize subtask is added whatever the depth.
decomposeQuery_IgnoresDepth(query, depth) ==
    <<[type |-> "research", description |-> query, capability |-> "search",
       priority |-> 1, dependsOn |-> {}],
      [type |-> "summarize", description |-> "Summarize research findings",
       capability |-> "summarize", priority |-> 2, dependsOn |-> {"research"}]>>

\* decomposeQuery: the research subtask, and the summarize subtask for the
\* depths 'comprehensive' and 'detailed'. A subtask without dependsOn has {}.
decomposeQuery(query, depth) ==
    <<[type |-> "research", description |-> query, capability |-> "search",
       priority |-> 1, dependsOn |-> {}]>>
    \o (IF depth = "comprehensive" \/ depth = "detailed"
        THEN <<[type |-> "summarize",
                description |-> "Summarize research findings",
                capability |-> "summarize", priority |-> 2,
                dependsOn |-> {"research"}]>>
        ELSE <<>>)

\* [...subtasks].sort((a, b) => a.priority - b.priority): the positions of
\* the subtasks in the order of the sorted copy. Array.prototype.sort is
\* stable: subtasks of equal priority keep their order.
RECURSIVE insertByPriority(_, _, _)
insertByPriority(subtasks, sorted, k) ==
    IF sorted = <<>> THEN <<k>>
    ELSE IF subtasks[k].priority < subtasks[sorted[Len(sorted)]].priority
         THEN Append(insertByPriority(subtasks, SubSeq(sorted, 1, Len(sorted) - 1), k),
                     sorted[Len(sorted)])
         ELSE Append(sorted, k)

RECURSIVE sortFrom(_, _, _)
sortFrom(subtasks, sorted, k) ==
    IF k > Len(subtasks) THEN sorted
    ELSE sortFrom(subtasks, insertByPriority(subtasks, sorted, k), k + 1)

\* Mutant: the list is taken in the order given.
sortByPriority_Unsorted(subtasks) == [k \in 1..Len(subtasks) |-> k]

sortByPriority(subtasks) == sortFrom(subtasks, <<>>, 1)

\* Mutant: the dependency check is left out.
dependenciesMet_Always(subtask, results) == TRUE

\* subtask.dependsOn.every(dep => results[dep])
dependenciesMet(subtask, results) ==
    \A dep \in subtask.dependsOn : Truthy(results[dep])

\* Mutant: the payload carries no previous results.
previousResults_Empty(subtask, results) == NoResults

\* Mutant: the entry of a dependency is read under the subtask's own type.
previousResults_OwnType(subtask, results) ==
    [ty \in Types |-> IF ty \in subtask.dependsOn THEN results[subtask.type]
                      ELSE Undefined]

\* previousResults: the results of the dependencies, {} without dependsOn.
previousResults(subtask, results) ==
    [ty \in Types |-> IF ty \in subtask.dependsOn THEN results[ty] ELSE Undefined]

\* The frame of a request whose executeSubtasks is about to start.
newFrame(task) ==
    [pc |-> "loop", sorted |-> sortByPriority(task.subtasks), i |-> 1,
     results |-> NoResults, agent |-> "", url |-> "", payload |-> NoPayload,
     reply |-> 0]

\* The for loop of executeSubtasks from subtask number c.frame.i of the
\* sorted copy, up to the next await (pc = "fetch") or the end of the loop
\* (pc = "return"). c = [task, frame, sent] is the request's view of its task,
\* its frame and the POSTs it has made; ags is the registry.
RECURSIVE executeSubtasks(_, _)
executeSubtasks(ags, c) ==
    IF c.frame.i > Len(c.frame.sorted)
    THEN [c EXCEPT !.frame.pc = "return"]
    ELSE
      LET subtask == c.task.subtasks[c.frame.sorted[c.frame.i]]
          capableAgents == findAgentsByCapability(ags, subtask.capability)
          next == [c.frame EXCEPT !.i = @ + 1]
      IN IF ~dependenciesMet(subtask, c.frame.results)
         THEN executeSubtasks(ags, [c EXCEPT !.frame = next])
         ELSE IF Len(capableAgents) = 0
         THEN executeSubtasks(ags,
                [c EXCEPT !.task = updateSubtask(c.task, subtask.id, "failed",
                                      ErrorObject("No capable agent available")),
                          !.frame = next])
         ELSE [c EXCEPT
                 !.task = updateSubtask(c.task, subtask.id, "in-progress", Null),
                 !.frame = [c.frame EXCEPT
                    !.pc = "fetch",
                    !.agent = capableAgents[1].name,
                    !.url = capableAgents[1].url,
                    !.payload = [type |-> subtask.type,
                                 description |-> subtask.description,
                                 previousResults |->
                                    previousResults(subtask, c.frame.results)]],
                 !.sent = Append(@, subtask.id)]

\* Mutant: a run without any result sets the task failed.
respond_FailsEmpty(c) ==
    LET report == [findings |-> OrElse(c.frame.results["research"], EmptyObject),
                   summary |-> OrElse(c.frame.results["summarize"], Null)]
        status == IF \A ty \in Types : ~Truthy(c.frame.results[ty])
                  THEN "failed" ELSE "completed"
    IN [c EXCEPT !.task = updateTask(c.task, status, [report |-> report]),
                 !.frame.pc = "done",
                 !.frame.reply = 200]

\* The end of POST /research after executeSubtasks returned: the report,
\* updateTask(taskId, 'completed', { report }) and res.json(...).
respond(c) ==
    LET report == [findings |-> OrElse(c.frame.results["research"], EmptyObject),
                   summary |-> OrElse(c.frame.results["summarize"], Null)]
    IN [c EXCEPT !.task = updateTask(c.task, "completed", [report |-> report]),
                 !.frame.pc = "done",
                 !.frame.reply = 200]

\* The request runs on until it awaits or has answered.
resume(ags, c) ==
    LET d == executeSubtasks(ags, c)
    IN IF d.frame.pc = "return" THEN respond(d) ELSE d

\* Number of retry attempts for failed tasks (config.js), read by no code.
retryAttempts == 3

\* Mutant: the catch also records the error as the subtask's entry of results.
delegationFailed_RecordsError(ags, c, message) ==
    LET subtask == c.task.subtasks[c.frame.sorted[c.frame.i]]
    IN resume(ags,
         [c EXCEPT !.task = updateSubtask(c.task, subtask.id, "failed",
                                          ErrorObject(message)),
                   !.frame.results[subtask.type] = ErrorObject(message),
                   !.frame.i = @ + 1])

\* Mutant: no catch in the loop, the error reaches the catch of POST
\* /research, which answers 500 and leaves the task as it is.
delegationFailed_Rethrows(ags, c, message) ==
    [c EXCEPT !.frame.pc = "done", !.frame.reply = 500]

\* Mutant: the catch leaves the loop (break), the report follows.
delegationFailed_Breaks(ags, c, message) ==
    LET subtask == c.task.subtasks[c.frame.sorted[c.frame.i]]
    IN respond([c EXCEPT !.task = updateSubtask(c.task, subtask.id, "failed",
                                                ErrorObject(message)),
                         !.frame.i = Len(c.frame.sorted) + 1])

\* Mutant: the failed subtask is delegated again, retryAttempts times in all.
delegationFailed_Retries(ags, c, message) ==
    LET subtask == c.task.subtasks[c.frame.sorted[c.frame.i]]
        posts == Cardinality({n \in 1..Len(c.sent) : c.sent[n] = subtask.id})
        failed == [c EXCEPT !.task = updateSubtask(c.task, subtask.id, "failed",
                                                   ErrorObject(message))]
    IN IF posts < retryAttempts
       THEN resume(ags, failed)
       ELSE resume(ags, [failed EXCEPT !.frame.i = @ + 1])

\* Mutant: the catch records the error and sets the subtask completed.
delegationFailed_Completes(ags, c, message) ==
    LET subtask == c.task.subtasks[c.frame.sorted[c.frame.i]]
    IN resume(ags,
         [c EXCEPT !.task = updateSubtask(c.task, subtask.id, "completed",
                                          ErrorObject(message)),
                   !.frame.i = @ + 1])

\* The catch of executeSubtasks: the subtask is failed with the message, and
\* the loop goes on.
delegationFailed(ags, c, message) ==
    LET subtask == c.task.subtasks[c.frame.sorted[c.frame.i]]
    IN resume(ags,
         [c EXCEPT !.task = updateSubtask(c.task, subtask.id, "failed",
                                          ErrorObject(message)),
                   !.frame.i = @ + 1])

\* After `await delegateTask(...)` returned result: results[type] = result,
\* the subtask is completed, the result stored under the agent's name.
delegationReturned(ags, c, result) ==
    LET subtask == c.task.subtasks[c.frame.sorted[c.frame.i]]
    IN resume(ags,
         [c EXCEPT !.task = storeResult(
                        updateSubtask(c.task, subtask.id, "completed", result),
                        c.frame.agent, result),
                   !.frame.results[subtask.type] = result,
                   !.frame.i = @ + 1])

\* ---------------------------------------------------------------- actions

Queries == {"blockchain scalability", "agent protocols"}

\* The bodies of POST /research that carry a query; depth "omitted" is a body
\* without the field.
ResearchBodies ==
    [query : Queries, depth : {"omitted", "basic", "detailed", "comprehensive"}]

\* const { query, depth = 'basic' } = req.body
depthOf(body) == IF body.depth = "omitted" THEN "basic" ELSE body.depth

RECURSIVE addSubtasks(_, _)
addSubtasks(task, subtasks) ==
    IF subtasks = <<>> THEN task
    ELSE addSubtasks(addSubtask(task, Head(subtasks)), Tail(subtasks))

\* POST /research from createTask to the first await of executeSubtasks (or
\* to the answer when no subtask is delegated), for a decomposition.
Research(query, depth, subtasks) ==
    /\ LET taskId == Len(tasks) + 1
           created == createTask(taskId, [query |-> query, depth |-> depth])
           task == updateTask(addSubtasks(created, subtasks), "in-progress", <<>>)
       IN \E c \in {resume(agents, [task |-> task, frame |-> newFrame(task),
                                    sent |-> <<>>])} :
             /\ tasks' = Append(tasks, c.task)
             /\ frames' = Append(frames, c.frame)
             /\ sent' = Append(sent, c.sent)
    /\ updatedAt' = Append(updatedAt, now)
    /\ taskKeys' = taskKeys \cup {Len(tasks) + 1}
    /\ UNCHANGED <<agents, agentStatus, now, lastSeen, response, apiVars, restVars>>

\* POST /research
PostResearch(body) ==
    Research(body.query, depthOf(body), decomposeQuery(body.query, depthOf(body)))

\* The requests of a run: at most limit tasks are created.
UpTo(limit) == Len(tasks) < limit

\* A response: the endpoint, the status, the error or message of the body,
\* whether it carries the header X-Agent-Capable: true, and for the Next.js
\* service the agent and the session the body names.
Response(endpoint, status, error) ==
    [endpoint |-> endpoint, status |-> status, error |-> error,
     capable |-> FALSE, agentId |-> 0, apiKey |-> 0, sessionId |-> 0,
     sessionStatus |-> ""]

NoResponse == Response("", 0, "")

\* lastSeen: Date.now() of StateManager.registerAgent, at the entry's place.
seenNow(statuses, seen, agentName) ==
    IF \E k \in 1..Len(statuses) : statuses[k].name = agentName
    THEN [k \in 1..Len(seen) |->
            IF statuses[k].name = agentName THEN now ELSE seen[k]]
    ELSE Append(seen, now)

\* POST /agent/register with name, url and capabilities.
PostAgentRegister(agentInfo) ==
    /\ agents' = registerAgent(agents, agentInfo)
    /\ agentStatus' = stateManagerRegisterAgent(agentStatus, agentInfo.name, agentInfo)
    /\ lastSeen' = seenNow(agentStatus, lastSeen, agentInfo.name)
    /\ response' = Response("/agent/register", 200, "registered successfully")
    /\ UNCHANGED <<tasks, frames, sent, now, updatedAt, taskKeys, apiVars, restVars>>

\* The request's view of its own task.
view(t) == [task |-> tasks[t], frame |-> frames[t], sent |-> sent[t]]

\* Mutant: the task store is keyed by the query, the write goes to the first
\* task of the same query.
Becomes_ByQuery(t, c) ==
    /\ \E d \in {c} :
          /\ tasks' = [tasks EXCEPT
                ![CHOOSE u \in TaskIds :
                    /\ tasks[u].query = tasks[t].query
                    /\ \A v \in TaskIds :
                          tasks[v].query = tasks[t].query => u <= v] = d.task]
          /\ frames' = [frames EXCEPT ![t] = d.frame]
          /\ sent' = [sent EXCEPT ![t] = d.sent]
    /\ updatedAt' = [updatedAt EXCEPT ![t] = now]
    /\ UNCHANGED <<agents, agentStatus, now, lastSeen, taskKeys, response, apiVars, restVars>>

\* The request of task t goes on to c.
Becomes(t, c) ==
    /\ \E d \in {c} :
          /\ tasks' = [tasks EXCEPT ![t] = d.task]
          /\ frames' = [frames EXCEPT ![t] = d.frame]
          /\ sent' = [sent EXCEPT ![t] = d.sent]
    /\ updatedAt' = [updatedAt EXCEPT ![t] = now]
    /\ UNCHANGED <<agents, agentStatus, now, lastSeen, taskKeys, response, apiVars, restVars>>

\* delegateTask: fetch() resolves with the server's status; a status that is
\* not ok throws `Agent returned ${status}`, an ok one awaits response.json().
FetchResolves(t) ==
    /\ t \in TaskIds
    /\ frames[t].pc = "fetch"
    /\ \E status \in ServerStatus(frames[t].url, frames[t].payload) :
          IF status = 200
          THEN Becomes(t, [view(t) EXCEPT !.frame.pc = "json"])
          ELSE Becomes(t, delegationFailed(agents, view(t), "Agent returned 500"))

\* delegateTask: fetch() rejects (no connection, or the timeout fired).
FetchRejects(t) ==
    /\ t \in TaskIds
    /\ frames[t].pc = "fetch"
    /\ \E message \in FetchErrors :
          Becomes(t, delegationFailed(agents, view(t), message))

\* delegateTask: response.json() resolves with the body.
JsonResolves(t) ==
    /\ t \in TaskIds
    /\ frames[t].pc = "json"
    /\ \E result \in ServerBodies(frames[t].url, t, frames[t].payload) :
          Becomes(t, delegationReturned(agents, view(t), result))

\* delegateTask: response.json() rejects.
JsonRejects(t) ==
    /\ t \in TaskIds
    /\ frames[t].pc = "json"
    /\ \E message \in JsonErrors(frames[t].url) :
          Becomes(t, delegationFailed(agents, view(t), message))

Init ==
    /\ agents = <<>>
    /\ tasks = <<>>
    /\ frames = <<>>
    /\ sent = <<>>
    /\ agentStatus = <<>>
    /\ now = 0
    /\ updatedAt = <<>>
    /\ lastSeen = <<>>
    /\ taskKeys = {}
    /\ response = NoResponse
    /\ storageAgents = <<>>
    /\ storageSessions = <<>>
    /\ sessions = <<>>
    /\ received = <<>>
    /\ token = 0
    /\ tokenExpiry = 0
    /\ calls = [c \in Callers |-> "idle"]
    /\ returned = [c \in Callers |-> NoToken]
    /\ thrown = ""

Next ==
    \/ \E body \in ResearchBodies : UpTo(MaxTasks) /\ PostResearch(body)
    \/ \E agentInfo \in Registrations : PostAgentRegister(agentInfo)
    \/ \E t \in TaskIds : FetchResolves(t)
    \/ \E t \in TaskIds : FetchRejects(t)
    \/ \E t \in TaskIds : JsonResolves(t)
    \/ \E t \in TaskIds : JsonRejects(t)

Spec == Init /\ [][Next]_vars

\* Every await of delegateTask settles: the fetch resolves, rejects or is
\* aborted by AbortSignal.timeout(config.taskTimeout), and so does the reading
\* of the body.
Fairness ==
    /\ WF_vars(FetchResolves(1) \/ FetchRejects(1))
    /\ WF_vars(JsonResolves(1) \/ JsonRejects(1))

\* One POST /research request, the registrations and its delegations, under
\* that fairness.
NextOne ==
    \/ \E body \in ResearchBodies : UpTo(1) /\ PostResearch(body)
    \/ \E agentInfo \in Registrations : PostAgentRegister(agentInfo)
    \/ \E t \in TaskIds : FetchResolves(t)
    \/ \E t \in TaskIds : FetchRejects(t)
    \/ \E t \in TaskIds : JsonResolves(t)
    \/ \E t \in TaskIds : JsonRejects(t)

FairOne == Init /\ [][NextOne]_vars /\ Fairness

\* --------------------------- executeSubtasks on any list of subtasks

CapabilityOf(type) == IF type = "research" THEN "search" ELSE "summarize"

\* The subtasks a caller of executeSubtasks may hand it.
AnySubtask ==
    { [type |-> ty, description |-> "any", capability |-> CapabilityOf(ty),
       priority |-> p, dependsOn |-> deps] :
        ty \in Types, p \in 1..MaxPriority, deps \in SUBSET Types }

AnySubtasks == UNION { [1..n -> AnySubtask] : n \in 1..MaxSubtasks }

\* One task whose subtasks are any list instead of decomposeQuery's.
ExecuteAny(subtasks) ==
    /\ UpTo(1)
    /\ Research("any", "basic", subtasks)

NextAny ==
    \/ \E subtasks \in AnySubtasks : ExecuteAny(subtasks)
    \/ \E agentInfo \in Registrations : PostAgentRegister(agentInfo)
    \/ \E t \in TaskIds : FetchResolves(t)
    \/ \E t \in TaskIds : FetchRejects(t)
    \/ \E t \in TaskIds : JsonResolves(t)
    \/ \E t \in TaskIds : JsonRejects(t)

SpecAny == Init /\ [][NextAny]_vars

\* ------------------- the two workers registered and answering every call

InitDemo ==
    /\ agents \in { <<a, b>> : a, b \in
                      {r \in Registrations : r.url \in {ResearcherUrl, SummarizerUrl}} }
    /\ agents[1] # agents[2]
    /\ agentStatus = [k \in 1..2 |->
                        [name |-> agents[k].name, status |-> "online",
                         url |-> agents[k].url,
                         capabilities |-> agents[k].capabilities]]
    /\ tasks = <<>>
    /\ frames = <<>>
    /\ sent = <<>>
    /\ now = 0
    /\ updatedAt = <<>>
    /\ lastSeen = <<0, 0>>
    /\ taskKeys = {}
    /\ response = Response("/agent/register", 200, "registered successfully")
    /\ storageAgents = <<>>
    /\ storageSessions = <<>>
    /\ sessions = <<>>
    /\ received = <<>>
    /\ token = 0
    /\ tokenExpiry = 0
    /\ calls = [c \in Callers |-> "idle"]
    /\ returned = [c \in Callers |-> NoToken]
    /\ thrown = ""

\* The requests of the demonstration, one more than MaxTasks.
DemoTasks == MaxTasks + 1

NextDemo ==
    \/ \E body \in ResearchBodies : UpTo(DemoTasks) /\ PostResearch(body)
    \/ \E t \in TaskIds : FetchResolves(t)
    \/ \E t \in TaskIds : JsonResolves(t)

SpecDemo ==
    /\ InitDemo
    /\ [][NextDemo]_vars
    /\ \A t \in 1..DemoTasks : WF_vars(FetchResolves(t)) /\ WF_vars(JsonResolves(t))

\* ------------------------------------------------------------ the claims

Posted(t, k) == \E n \in 1..Len(sent[t]) : sent[t][n] = tasks[t].subtasks[k].id

\* C1: a task of depth detailed or comprehensive has exactly two subtasks,
\* research (priority 1) and summarize (priority 2, depending on research),
\* and in no state has the summarize subtask been posted to a worker or left
\* status pending while the research subtask is not completed.
C1_SummarizeAfterResearch ==
    \A t \in TaskIds :
        tasks[t].depth \in {"detailed", "comprehensive"} =>
            LET st == tasks[t].subtasks
            IN /\ Len(st) = 2
               /\ st[1].type = "research" /\ st[1].priority = 1
               /\ st[1].dependsOn = {}
               /\ st[2].type = "summarize" /\ st[2].priority = 2
               /\ st[2].dependsOn = {"research"}
               /\ (st[2].status # "pending" \/ Posted(t, 2))
                    => st[1].status = "completed"

\* A comprehensive task with the summarize subtask in progress at a worker.
C1_Witness ==
    \E t \in TaskIds : /\ tasks[t].depth = "comprehensive"
                        /\ tasks[t].subtasks[2].status = "in-progress"
                        /\ Posted(t, 2)

\* C2: a POST /research whose depth is basic or omitted creates a task with
\* exactly one subtask, of type research with capability search and
\* priority 1, whatever the query.
C2_BasicOneSubtask ==
    [][\A body \in ResearchBodies :
          (/\ body.depth \in {"omitted", "basic"}
           /\ Len(tasks') = Len(tasks) + 1
           /\ PostResearch(body)) =>
              LET st == tasks'[Len(tasks')].subtasks
              IN /\ Len(st) = 1
                 /\ st[1].type = "research"
                 /\ st[1].capability = "search"
                 /\ st[1].priority = 1
                 /\ st[1].description = body.query]_vars

\* A basic task of one subtask, answered.
C2_Witness ==
    \E t \in TaskIds : /\ tasks[t].depth = "basic"
                        /\ Len(tasks[t].subtasks) = 1
                        /\ tasks[t].subtasks[1].description = tasks[t].query
                        /\ frames[t].pc = "done"

ReachedNow(t) ==
    LET first == IF t > Len(tasks) THEN 1
                 ELSE IF frames'[t].i > frames[t].i THEN frames[t].i + 1
                 ELSE Len(frames'[t].sorted) + 1
        last == IF frames'[t].pc = "done" THEN Len(frames'[t].sorted)
                ELSE frames'[t].i
    IN first..last

\* No registered worker lists the capability.
NoneLists(capability) ==
    \A n \in 1..Len(agents) : capability \notin agents[n].capabilities

\* The subtask at position k of task t, after the step, has failed for want of
\* a worker, without a POST, and the loop has gone past it.
FailedUnposted(t, k) ==
    LET subtask == tasks'[t].subtasks[frames'[t].sorted[k]]
    IN /\ subtask.status = "failed"
       /\ subtask.result = ErrorObject("No capable agent available")
       /\ \A n \in 1..Len(sent'[t]) : sent'[t][n] # subtask.id
       /\ (frames'[t].pc = "done" \/ frames'[t].i > k)

Passed(t, k) ==
    \/ frames[t].pc = "done"
    \/ \E n \in 1..Len(frames[t].sorted) :
          frames[t].sorted[n] = k /\ n < frames[t].i

\* C5: a subtask that names dependencies is posted to a worker only if every
\* one of them has a result in the results map of the run, and one the loop
\* went past while a dependency had none is pending for ever after, was never
\* posted and carries no result or error.
C5_DependencyGate ==
    \A t \in TaskIds : \A k \in 1..Len(tasks[t].subtasks) :
        LET subtask == tasks[t].subtasks[k]
            missing == {dep \in subtask.dependsOn :
                            frames[t].results[dep] = Undefined}
        IN /\ Posted(t, k) => missing = {}
           /\ (Passed(t, k) /\ missing # {}) =>
                 /\ subtask.status = "pending"
                 /\ subtask.result = Undefined
                 /\ ~Posted(t, k)

\* A completed task whose research was posted and failed and whose summarize
\* subtask is still pending.
C5_Witness ==
    \E t \in TaskIds :
        /\ tasks[t].status = "completed"
        /\ Len(tasks[t].subtasks) = 2
        /\ Posted(t, 1) /\ tasks[t].subtasks[1].status = "failed"
        /\ tasks[t].subtasks[2].status = "pending"
        /\ frames[t].results["research"] = Undefined

\* C6: the loop goes through the subtasks in ascending priority, those of
\* equal priority in the order of the list: so is its sorted copy, and no
\* subtask is set in-progress (and posted) after one of a higher priority
\* number, or after a later one of the same priority.
C6_PriorityOrder ==
    \A t \in TaskIds :
        LET st == tasks[t].subtasks
            sorted == frames[t].sorted
            before(x, y) == \/ st[x].priority < st[y].priority
                            \/ st[x].priority = st[y].priority /\ x < y
        IN /\ Len(sorted) = Len(st)
           /\ \A a, b \in 1..Len(sorted) : a < b => before(sorted[a], sorted[b])
           /\ \A a, b \in 1..Len(sent[t]) :
                 a < b => before(findSubtask(tasks[t], sent[t][a]),
                                 findSubtask(tasks[t], sent[t][b]))

\* A list given with the higher priority number first, both subtasks posted,
\* the second of the list first.
C6_Witness ==
    \E t \in TaskIds :
        /\ Len(tasks[t].subtasks) = 2
        /\ tasks[t].subtasks[1].priority > tasks[t].subtasks[2].priority
        /\ sent[t] = <<tasks[t].subtasks[2].id, tasks[t].subtasks[1].id>>

\* C7: at most one subtask of a task is in-progress, it is the one whose
\* call the request awaits, and every subtask posted before the last one has
\* already ended completed or failed.
C7_OneAtATime ==
    \A t \in TaskIds :
        LET running == {k \in 1..Len(tasks[t].subtasks) :
                            tasks[t].subtasks[k].status = "in-progress"}
        IN /\ Cardinality(running) <= 1
           /\ running # {} <=> frames[t].pc \in {"fetch", "json"}
           /\ running # {} => running = {frames[t].sorted[frames[t].i]}
           /\ \A n \in 1..(Len(sent[t]) - 1) :
                 tasks[t].subtasks[findSubtask(tasks[t], sent[t][n])].status
                    \in {"completed", "failed"}

\* The second subtask of a task in progress, its response being read.
C7_Witness ==
    \E t \in TaskIds :
        /\ Len(sent[t]) = 2
        /\ frames[t].pc = "json"
        /\ tasks[t].subtasks[2].status = "in-progress"

DelegationErrors ==
    FetchErrors \cup JsonErrors(OtherUrl) \cup {"Agent returned 500"}

FullReport(t) ==
    /\ Len(tasks) >= t
    /\ tasks[t].status = "completed" /\ frames[t].reply = 200
    /\ Len(tasks[t].subtasks) = 2
    /\ \A k \in 1..2 : tasks[t].subtasks[k].status = "completed"
    /\ tasks[t].report.findings = Json("findings", t, tasks[t].query)
    /\ tasks[t].report.summary = Json("summary", t, tasks[t].query)
    /\ tasks[t].subtasks[1].result = tasks[t].report.findings
    /\ tasks[t].subtasks[2].result = tasks[t].report.summary

maxAge == 60
\* `now - agent.lastSeen > 60000`: one minute.
agentTimeout == 1

\* The instants at which something happens: the first minutes, and the
\* minutes from one hour on.
Instants == {base + m : base \in {0, maxAge}, m \in 0..MaxMinutes}

\* Time passes.
Tick ==
    /\ \E t \in Instants : t > now /\ now' = t
    /\ UNCHANGED <<agents, tasks, frames, sent, agentStatus, updatedAt, lastSeen,
                   taskKeys, response, apiVars, restVars>>

\* Mutant: the sweep does not look at the status.
expired_AnyStatus(task, updated, time) == time - updated > maxAge

\* cleanup: `now - task.updatedAt > maxAge && (task.status === 'completed'
\* || task.status === 'failed')`.
expired(task, updated, time) ==
    /\ time - updated > maxAge
    /\ (task.status = "completed" \/ task.status = "failed")

\* Mutant: every worker is flagged offline by the sweep.
stale_Always(seen, time) == TRUE

\* cleanup: `now - agent.lastSeen > 60000`.
stale(seen, time) == time - seen > agentTimeout

\* StateManager.cleanup(), run by setInterval: the expired tasks are deleted
\* and the stale workers flagged offline. (No code creates a session of the
\* StateManager.) The timer's phase is not fixed: the sweep may run at any
\* instant.
Cleanup ==
    /\ taskKeys' = {t \in taskKeys : ~expired(tasks[t], updatedAt[t], now)}
    /\ agentStatus' = [k \in 1..Len(agentStatus) |->
                          IF stale(lastSeen[k], now)
                          THEN [agentStatus[k] EXCEPT !.status = "offline"]
                          ELSE agentStatus[k]]
    /\ UNCHANGED <<agents, tasks, frames, sent, now, updatedAt, lastSeen,
                   response, apiVars, restVars>>

\* The request bodies of the runs with the clock: one query, basic or
\* comprehensive.
SweepBodies ==
    {body \in ResearchBodies : /\ body.query = "agent protocols"
                               /\ body.depth \in {"basic", "comprehensive"}}

\* One POST /research request, the registrations, the clock and the sweep.
NextSweep ==
    \/ \E body \in SweepBodies : UpTo(1) /\ PostResearch(body)
    \/ \E agentInfo \in Registrations : PostAgentRegister(agentInfo)
    \/ \E t \in TaskIds : FetchResolves(t)
    \/ \E t \in TaskIds : FetchRejects(t)
    \/ \E t \in TaskIds : JsonResolves(t)
    \/ \E t \in TaskIds : JsonRejects(t)
    \/ Tick
    \/ Cleanup

SpecSweep == Init /\ [][NextSweep]_vars

\* ------------------------------- direct calls of the StateManager methods

\* Mutant: a task that was created is found also after the sweep deleted it.
has_Created(taskId) == taskId \in TaskIds

\* `this.tasks.get(taskId)` gives a task.
has(taskId) == taskId \in taskKeys

\* The method throws: nothing but the error changes.
Throws(message) ==
    /\ thrown' = message
    /\ UNCHANGED <<agents, tasks, frames, sent, agentStatus, now, updatedAt,
                   lastSeen, taskKeys, response, apiVars, received, authVars>>

\* The method returns, with the task as changed and its updatedAt set.
Returns(taskId, task) ==
    /\ tasks' = [tasks EXCEPT ![taskId] = task]
    /\ updatedAt' = [updatedAt EXCEPT ![taskId] = now]
    /\ thrown' = ""
    /\ UNCHANGED <<agents, frames, sent, agentStatus, now, lastSeen, taskKeys,
                   response, apiVars, received, authVars>>

\* stateManager.updateTask(taskId, status)
CallUpdateTask(taskId, status) ==
    IF ~has(taskId)
    THEN Throws("Task not found")
    ELSE Returns(taskId, updateTask(tasks[taskId], status, <<>>))

\* stateManager.addSubtask(taskId, subtask)
CallAddSubtask(taskId, subtask) ==
    IF ~has(taskId)
    THEN Throws("Task not found")
    ELSE /\ Len(tasks[taskId].subtasks) < MaxSubtasks
         /\ Returns(taskId, addSubtask(tasks[taskId], subtask))

\* stateManager.updateSubtask(taskId, subtaskId, status, result)
CallUpdateSubtask(taskId, subtaskId, status, result) ==
    IF ~has(taskId)
    THEN Throws("Task not found")
    ELSE IF findSubtask(tasks[taskId], subtaskId) = 0
    THEN Throws("Subtask not found")
    ELSE Returns(taskId, updateSubtask(tasks[taskId], subtaskId, status, result))

\* stateManager.storeResult(taskId, agentName, result)
CallStoreResult(taskId, agentName, result) ==
    IF ~has(taskId)
    THEN Throws("Task not found")
    ELSE Returns(taskId, storeResult(tasks[taskId], agentName, result))

\* The task ids a caller may name: one never issued, and those of the run.
CallTaskIds == 0..MaxTasks

\* The subtask ids a caller may name: the first subtask of a task of the
\* run, and its third, which no task has.
CallSubtaskIds == {<<taskId, n>> : taskId \in 1..MaxTasks, n \in {0, MaxSubtasks}}

\* The subtask a caller adds.
CallSubtask ==
    [type |-> "summarize", description |-> "Summarize research findings",
     capability |-> "summarize", priority |-> 2, dependsOn |-> {"research"}]

\* Requests that no worker serves (each is answered in one step), the clock,
\* the sweep, and direct calls of the four methods.
NextState ==
    \/ \E body \in SweepBodies : UpTo(MaxTasks) /\ PostResearch(body)
    \/ Tick
    \/ Cleanup
    \/ \E taskId \in CallTaskIds : CallUpdateTask(taskId, "failed")
    \/ \E taskId \in CallTaskIds : CallAddSubtask(taskId, CallSubtask)
    \/ \E taskId \in CallTaskIds, subtaskId \in CallSubtaskIds :
          CallUpdateSubtask(taskId, subtaskId, "completed", OtherObject)
    \/ \E taskId \in CallTaskIds :
          CallStoreResult(taskId, "ResearcherAgent", OtherObject)

SpecState == Init /\ [][NextState]_vars

\* ------------------------------------------------- the Next.js service

\* `name.length > 50`
maxNameLength == 50

\* A name of maxNameLength + 1 characters.
LongName == "a name of fifty-one characters"

\* The values of `name` in the body of POST /api/auth/register: absent, a
\* number, and strings: empty, blank, two names and one that is too long.
NameValues ==
    {[kind |-> "undefined", text |-> ""], [kind |-> "number", text |-> "7"]}
        \cup {[kind |-> "string", text |-> text] :
                 text \in {"", "   ", "alpha", "beta", LongName}}

\* name.trim()
trim(text) == IF text = "   " THEN "" ELSE text

\* name.length
length(text) ==
    CASE text = "" -> 0
      [] text = "   " -> 3
      [] text = LongName -> maxNameLength + 1
      [] OTHER -> 5

\* The bodies of a request: text that is not JSON (or null, whose
\* destructuring throws into the same catch), or an object with name.
Bodies ==
    {[json |-> FALSE, name |-> [kind |-> "undefined", text |-> ""]]}
        \cup [json : {TRUE}, name : NameValues]

\* `!name || typeof name !== "string" || name.trim().length === 0`, negated.
nameGiven(name) ==
    /\ name.kind = "string"
    /\ name.text # ""
    /\ length(trim(name.text)) # 0

\* The api keys a request may carry: those the service issues (agent n
\* holds key n) and one it never issued.
Keys == 0..MaxAgents

\* The Authorization header: absent, or a prefix of seven characters
\* followed by a key.
Headers ==
    {[present |-> FALSE, prefix |-> "", rest |-> 0]}
        \cup [present : {TRUE}, prefix : {"Bearer ", "bearer ", "Basic  "}, rest : Keys]

\* Array.from(map.values()).find(...): the first of the places that hold,
\* 0 if none.
find(hits) ==
    IF hits = {} THEN 0 ELSE CHOOSE k \in hits : \A j \in hits : k <= j

\* storage.findAgentByApiKey
findAgentByApiKey(apiKey) ==
    find({k \in 1..Len(storageAgents) : storageAgents[k].apiKey = apiKey})

\* Mutant: the lookup finds no agent.
findAgentByName_Never(name) == 0

\* storage.findAgentByName
findAgentByName(name) ==
    find({k \in 1..Len(storageAgents) : storageAgents[k].name = name})

\* Mutant: every header that starts with "Bearer " is accepted, as the first
\* agent when the key is unknown.
validateApiKey_AnyBearer(header) ==
    IF ~header.present \/ header.prefix # "Bearer "
    THEN [valid |-> FALSE, agent |-> 0,
          error |-> "Missing or invalid Authorization header"]
    ELSE IF storageAgents = <<>>
    THEN [valid |-> FALSE, agent |-> 0, error |-> "Invalid API key"]
    ELSE [valid |-> TRUE,
          agent |-> IF findAgentByApiKey(header.rest) = 0 THEN 1
                    ELSE findAgentByApiKey(header.rest),
          error |-> ""]

\* validateApiKey: the place of the agent that holds the key of the header.
validateApiKey(header) ==
    IF ~header.present \/ header.prefix # "Bearer "
    THEN [valid |-> FALSE, agent |-> 0,
          error |-> "Missing or invalid Authorization header"]
    ELSE IF findAgentByApiKey(header.rest) = 0
    THEN [valid |-> FALSE, agent |-> 0, error |-> "Invalid API key"]
    ELSE [valid |-> TRUE, agent |-> findAgentByApiKey(header.rest), error |-> ""]

\* A handler answers and changes nothing.
Answer(r) ==
    /\ response' = r
    /\ UNCHANGED <<agents, tasks, frames, sent, agentStatus, now, updatedAt,
                   lastSeen, taskKeys, apiVars, restVars>>

\* POST /api/auth/register. uuidv4() gives the n-th agent the id n and the
\* key n. The handler awaits the body before it reads the storage, the rest
\* is one synchronous run.
ApiRegister(body) ==
    IF ~body.json
    THEN Answer(Response("/api/auth/register", 400, "Invalid JSON"))
    ELSE IF ~nameGiven(body.name)
    THEN Answer(Response("/api/auth/register", 400,
                         "Name is required and must be a non-empty string"))
    ELSE IF length(body.name.text) > maxNameLength
    THEN Answer(Response("/api/auth/register", 400,
                         "Name must be 50 characters or less"))
    ELSE IF findAgentByName(body.name.text) # 0
    THEN Answer(Response("/api/auth/register", 409, "Name already taken"))
    ELSE /\ Len(storageAgents) < MaxAgents
         /\ LET n == Len(storageAgents) + 1
            IN /\ storageAgents' = Append(storageAgents,
                     [id |-> n, name |-> body.name.text, apiKey |-> n,
                      createdAt |-> now])
               /\ response' = [Response("/api/auth/register", 201, "")
                                 EXCEPT !.capable = TRUE, !.agentId = n,
                                        !.apiKey = n]
         /\ UNCHANGED <<agents, tasks, frames, sent, agentStatus, now, updatedAt,
                        lastSeen, taskKeys, storageSessions, sessions,
                        restVars>>

\* POST /api/auth/register up to `await request.json()`: the request has
\* arrived and its body is awaited.
ApiRegisterArrives(body) ==
    /\ Len(received) < MaxReceived
    /\ received' = Append(received, body)
    /\ UNCHANGED <<agents, tasks, frames, sent, agentStatus, now, updatedAt,
                   lastSeen, taskKeys, response, apiVars, authVars, thrown>>

\* The sequence without its i-th element.
without(list, i) == SubSeq(list, 1, i - 1) \o SubSeq(list, i + 1, Len(list))

\* POST /api/auth/register from `await request.json()` on, for the i-th of
\* the awaited bodies: the checks, findAgentByName, addAgent and the answer
\* are one synchronous run.
ApiRegisterSettles(i) ==
    /\ i \in 1..Len(received)
    /\ received' = without(received, i)
    /\ LET body == received[i]
       IN IF ~body.json
          THEN response' = Response("/api/auth/register", 400, "Invalid JSON")
               /\ UNCHANGED storageAgents
          ELSE IF ~nameGiven(body.name)
          THEN response' = Response("/api/auth/register", 400,
                              "Name is required and must be a non-empty string")
               /\ UNCHANGED storageAgents
          ELSE IF length(body.name.text) > maxNameLength
          THEN response' = Response("/api/auth/register", 400,
                              "Name must be 50 characters or less")
               /\ UNCHANGED storageAgents
          ELSE IF findAgentByName(body.name.text) # 0
          THEN response' = Response("/api/auth/register", 409,
                                    "Name already taken")
               /\ UNCHANGED storageAgents
          ELSE LET n == Len(storageAgents) + 1
               IN /\ n <= MaxAgents
                  /\ storageAgents' = Append(storageAgents,
                        [id |-> n, name |-> body.name.text, apiKey |-> n,
                         createdAt |-> now])
                  /\ response' = [Response("/api/auth/register", 201, "")
                                    EXCEPT !.capable = TRUE, !.agentId = n,
                                           !.apiKey = n]
    /\ UNCHANGED <<agents, tasks, frames, sent, agentStatus, now, updatedAt,
                   lastSeen, taskKeys, storageSessions, sessions, authVars,
                   thrown>>

\* Concurrent registrations at the Next.js service.
NextRegister ==
    \/ \E body \in Bodies : ApiRegisterArrives(body)
    \/ \E i \in 1..MaxReceived : ApiRegisterSettles(i)

SpecRegister == Init /\ [][NextRegister]_vars

\* POST /api/test
ApiTest(header, body) ==
    LET auth == validateApiKey(header)
    IN IF ~auth.valid
       THEN Answer(Response("/api/test", 401, auth.error))
       ELSE IF ~body.json
       THEN Answer(Response("/api/test", 400, "Invalid JSON"))
       ELSE Answer([Response("/api/test", 200, "") EXCEPT
                       !.capable = TRUE,
                       !.agentId = storageAgents[auth.agent].id])

\* POST /api/sessions/join: a new session of the agent in storage.sessions.
\* uuidv4() gives the n-th session the id n.
ApiJoin(header) ==
    LET auth == validateApiKey(header)
    IN IF ~auth.valid
       THEN Answer(Response("/api/sessions/join", 401, auth.error))
       ELSE /\ Len(storageSessions) < MaxSessions
            /\ LET n == Len(storageSessions) + 1
                   agent == storageAgents[auth.agent]
               IN /\ storageSessions' = Append(storageSessions,
                        [id |-> n, agentId |-> agent.id, agentName |-> agent.name,
                         status |-> "waiting", createdAt |-> now,
                         lastActivity |-> now])
                  /\ response' = [Response("/api/sessions/join", 201, "")
                                    EXCEPT !.capable = TRUE, !.sessionId = n,
                                           !.sessionStatus = "waiting"]
            /\ UNCHANGED <<agents, tasks, frames, sent, agentStatus, now,
                           updatedAt, lastSeen, taskKeys, storageAgents, sessions,
                           restVars>>

\* The session ids a request may name: those the service issues and one it
\* never issued.
SessionIds == 0..MaxSessions

\* GET /api/sessions/{sessionId}/state: reads the `sessions` Map of its own
\* module.
ApiState(header, sessionId) ==
    LET auth == validateApiKey(header)
        k == find({j \in 1..Len(sessions) : sessions[j].id = sessionId})
    IN IF ~auth.valid
       THEN Answer(Response("/api/sessions/state", 401, auth.error))
       ELSE IF k = 0
       THEN Answer(Response("/api/sessions/state", 404, "Session not found"))
       ELSE IF sessions[k].agentId # storageAgents[auth.agent].id
       THEN Answer(Response("/api/sessions/state", 403, "Not your session"))
       ELSE /\ sessions' = [sessions EXCEPT ![k].lastActivity = now]
            /\ response' = [Response("/api/sessions/state", 200, "")
                              EXCEPT !.capable = TRUE, !.sessionId = sessionId,
                                     !.sessionStatus = sessions[k].status]
            /\ UNCHANGED <<agents, tasks, frames, sent, agentStatus, now,
                           updatedAt, lastSeen, taskKeys, storageAgents,
                           storageSessions, restVars>>

\* GET /api/health
ApiHealth ==
    Answer([Response("/api/health", 200, "") EXCEPT !.capable = TRUE])

\* The bodies of POST /api/test: only whether the body is JSON is read.
TestBodies == {body \in Bodies : body.name.kind = "undefined"}

NextApi ==
    \/ \E body \in Bodies : ApiRegister(body)
    \/ \E header \in Headers, body \in TestBodies : ApiTest(header, body)
    \/ \E header \in Headers : ApiJoin(header)
    \/ \E header \in Headers, sessionId \in SessionIds : ApiState(header, sessionId)
    \/ ApiHealth

SpecApi == Init /\ [][NextApi]_vars

\* ------------------------------------------- AgentAuth (shared/auth.js)

\* `this.tokenExpiry - 300000`: five minutes.
refreshMargin == 5

\* The tokens the server may issue.
TokenValues == {1, 2}

\* The `expiresIn` the server may answer, in minutes: less than the margin
\* and more.
ExpiresIn == {3, 7}

\* Mutant: a token counts as expired only when its expiry has passed.
isTokenExpired_NoMargin(expiry, time) ==
    IF expiry = 0 THEN TRUE ELSE time > expiry

\* isTokenExpired: no expiry, or `Date.now() > this.tokenExpiry - 300000`.
isTokenExpired(expiry, time) ==
    IF expiry = 0 THEN TRUE ELSE time > expiry - refreshMargin

\* What is left unchanged by a step of the worker's AgentAuth.
NotAuth ==
    /\ UNCHANGED <<agents, tasks, frames, sent, agentStatus, updatedAt, lastSeen,
                   taskKeys, response, apiVars, received, thrown>>

\* getToken: with a token that is not about to expire it returns the token
\* at once, otherwise it calls authenticate, which awaits the fetch of the
\* challenge.
GetToken(c) ==
    /\ calls[c] = "idle"
    /\ IF token = 0 \/ isTokenExpired(tokenExpiry, now)
       THEN /\ calls' = [calls EXCEPT ![c] = "challenge"]
            /\ UNCHANGED returned
       ELSE /\ returned' = [returned EXCEPT
                   ![c] = [token |-> token, cached |-> TRUE, threw |-> FALSE]]
            /\ UNCHANGED calls
    /\ UNCHANGED <<token, tokenExpiry, now>>
    /\ NotAuth

\* The await of caller c, at position from, resolves: the call moves to
\* position to.
Resolves(c, from, to) ==
    /\ calls[c] = from
    /\ calls' = [calls EXCEPT ![c] = to]
    /\ UNCHANGED <<token, tokenExpiry, returned, now>>
    /\ NotAuth

\* authenticate: the fetch of the challenge resolves with an ok status.
ChallengeResolves(c) == Resolves(c, "challenge", "tasks")

\* authenticate: the challenge is read and solved, the solutions are posted.
TasksResolve(c) == Resolves(c, "tasks", "submit")

\* authenticate: the fetch of the submission resolves with an ok status.
SubmitResolves(c) == Resolves(c, "submit", "token")

\* authenticate: an await rejects, a status is not ok or solveTasks throws:
\* the error is thrown on to the caller of getToken.
AuthenticateThrows(c) ==
    /\ calls[c] \in {"challenge", "tasks", "submit", "token"}
    /\ calls' = [calls EXCEPT ![c] = "idle"]
    /\ returned' = [returned EXCEPT
          ![c] = [token |-> 0, cached |-> FALSE, threw |-> TRUE]]
    /\ UNCHANGED <<token, tokenExpiry, now>>
    /\ NotAuth

\* authenticate: { token, expiresIn } is read; this.token = token and
\* this.tokenExpiry = Date.now() + expiresIn * 1000.
TokenResolves(c, value, expiresIn) ==
    /\ calls[c] = "token"
    /\ token' = value
    /\ tokenExpiry' = now + expiresIn
    /\ calls' = [calls EXCEPT ![c] = "return"]
    /\ UNCHANGED <<returned, now>>
    /\ NotAuth

\* getToken after `await this.authenticate()`: return this.token.
Return(c) ==
    /\ calls[c] = "return"
    /\ calls' = [calls EXCEPT ![c] = "idle"]
    /\ returned' = [returned EXCEPT
          ![c] = [token |-> token, cached |-> FALSE, threw |-> FALSE]]
    /\ UNCHANGED <<token, tokenExpiry, now>>
    /\ NotAuth

\* logout
Logout ==
    /\ token' = 0
    /\ tokenExpiry' = 0
    /\ UNCHANGED <<calls, returned, now>>
    /\ NotAuth

\* A minute passes. The return of getToken follows the end of authenticate
\* in the same turn of the event loop: no time passes in between.
Minute ==
    /\ now < MaxClock
    /\ \A c \in Callers : calls[c] # "return"
    /\ now' = now + 1
    /\ UNCHANGED authVars
    /\ NotAuth

NextAuth ==
    \/ \E c \in Callers : GetToken(c)
    \/ \E c \in Callers : ChallengeResolves(c)
    \/ \E c \in Callers : TasksResolve(c)
    \/ \E c \in Callers : SubmitResolves(c)
    \/ \E c \in Callers : AuthenticateThrows(c)
    \/ \E c \in Callers, value \in TokenValues, expiresIn \in ExpiresIn :
          TokenResolves(c, value, expiresIn)
    \/ \E c \in Callers : Return(c)
    \/ Logout
    \/ Minute

SpecAuth == Init /\ [][NextAuth]_vars

\* ------------------------------------- requests without a required field

\* The bodies of POST /research, those without a query ("" stands for an
\* absent or empty query, both falsy) included.
AnyResearchBodies ==
    [query : {"", "agent protocols"}, depth : {"omitted", "comprehensive"}]

\* Mutant: the check of the query is left out.
queryGiven_Always(body) == TRUE

\* `!query`, negated.
queryGiven(body) == body.query # ""

\* POST /research with any body.
PostResearchRequest(body) ==
    IF queryGiven(body)
    THEN PostResearch(body)
    ELSE Answer(Response("/research", 400, "Query is required"))

\* The bodies of POST /agent/register: a registration without the fields
\* named in `missing`.
AgentRegisterBodies ==
    [info : Registrations, missing : SUBSET {"name", "url", "capabilities"}]

\* `!name || !url || !capabilities`, negated.
required(body) == body.missing = {}

\* POST /agent/register with any body.
PostAgentRegisterRequest(body) ==
    IF required(body)
    THEN PostAgentRegister(body.info)
    ELSE Answer(Response("/agent/register", 400,
                         "name, url, and capabilities are required"))

\* The handlers that check their body, of both services, with one task.
NextRequests ==
    \/ \E body \in AnyResearchBodies :
          (queryGiven(body) => UpTo(1)) /\ PostResearchRequest(body)
    \/ \E body \in AgentRegisterBodies : PostAgentRegisterRequest(body)
    \/ \E t \in TaskIds : FetchResolves(t)
    \/ \E t \in TaskIds : FetchRejects(t)
    \/ \E t \in TaskIds : JsonResolves(t)
    \/ \E t \in TaskIds : JsonRejects(t)
    \/ \E body \in Bodies : ApiRegister(body)

SpecRequests == Init /\ [][NextRequests]_vars

\* ------------------------------------------ concurrent POST /research

\* The requests of a run with concurrent requests, one more than MaxTasks.
ConcurrentTasks == MaxTasks + 1

NextConcurrent ==
    \/ \E body \in ResearchBodies : UpTo(ConcurrentTasks) /\ PostResearch(body)
    \/ \E agentInfo \in Registrations : PostAgentRegister(agentInfo)
    \/ \E t \in TaskIds : FetchResolves(t)
    \/ \E t \in TaskIds : FetchRejects(t)
    \/ \E t \in TaskIds : JsonResolves(t)
    \/ \E t \in TaskIds : JsonRejects(t)

SpecConcurrent == Init /\ [][NextConcurrent]_vars

\* C11: a step of one request (its frame changes, or its task is created)
\* leaves the task, the frame and the POSTs of every other request as they
\* were, a registration leaves every task as it was, and every value a task
\* holds from a worker was answered to a call of that task: it carries the
\* task's own id, and findings and summary are about the task's own query.
C11_NoInterference ==
    [][/\ \A t \in TaskIds : \A u \in TaskIds \ {t} :
             frames'[t] # frames[t] =>
                 /\ tasks'[u] = tasks[u]
                 /\ frames'[u] = frames[u]
                 /\ sent'[u] = sent[u]
       /\ \A u \in TaskIds :
             (Len(tasks') > Len(tasks) \/ agents' # agents) =>
                 /\ tasks'[u] = tasks[u]
                 /\ frames'[u] = frames[u]
                 /\ sent'[u] = sent[u]
       /\ \A t \in 1..Len(tasks') :
             /\ tasks'[t].id = t
             /\ \A v \in {tasks'[t].subtasks[k].result :
                                k \in 1..Len(tasks'[t].subtasks)}
                         \cup {tasks'[t].results[n].data : n \in AgentNames}
                         \cup {tasks'[t].report.findings, tasks'[t].report.summary} :
                   /\ v.task \in {0, t}
                   /\ v.kind \in {"findings", "summary"} => v.text = tasks'[t].query
      ]_vars

\* Two requests for the same query in flight at once, the first reading the
\* summarizer's response and the second awaiting its research call.
C11_Witness ==
    /\ Len(tasks) = 2
    /\ tasks[1].query = tasks[2].query
    /\ frames[1].pc = "json" /\ frames[1].i = 2
    /\ frames[2].pc = "fetch" /\ frames[2].i = 1
    /\ tasks[1].subtasks[1].result.task = 1

\* ------------------------------------------------------- the registry

\* The request of task t decides a delegation in this step: it was created
\* or has moved on in its list, and awaits a fetch.
Decided(t) ==
    /\ frames'[t].pc = "fetch"
    /\ (t > Len(tasks) \/ frames'[t].i # frames[t].i)

\* The places of a name in a registry.
PlacesOf(registry, name) == {k \in 1..Len(registry) : registry[k].name = name}

\* C12: a registration leaves exactly one entry of its name in the agents
\* Map and in agentStatus, holding the url and the capabilities of this
\* registration, and is answered 200 with the success message also when the
\* name was registered before; a delegation is decided on the entry the
\* registry holds at that moment: its url is posted to and its capabilities
\* list the subtask's capability.
C12_Reregistration ==
    [][/\ \A info \in Registrations : PostAgentRegister(info) =>
             /\ Cardinality(PlacesOf(agents', info.name)) = 1
             /\ Cardinality(PlacesOf(agentStatus', info.name)) = 1
             /\ \A k \in PlacesOf(agents', info.name) : agents'[k] = info
             /\ \A k \in PlacesOf(agentStatus', info.name) :
                   /\ agentStatus'[k].url = info.url
                   /\ agentStatus'[k].capabilities = info.capabilities
             /\ Len(agents') = Len(agents) + (IF PlacesOf(agents, info.name) = {}
                                               THEN 1 ELSE 0)
             /\ response' = Response("/agent/register", 200,
                                     "registered successfully")
       /\ \A t \in 1..Len(tasks') : Decided(t) =>
             \E k \in PlacesOf(agents', frames'[t].agent) :
                /\ Cardinality(PlacesOf(agents', frames'[t].agent)) = 1
                /\ agents'[k].url = frames'[t].url
                /\ tasks'[t].subtasks[frames'[t].sorted[frames'[t].i]].capability
                      \in agents'[k].capabilities
      ]_vars

\* The researcher answered the research call, was registered again with
\* another url and both capabilities, and the summarize call goes to that
\* url under its name.
C12_Witness ==
    \E t \in TaskIds :
        /\ Len(agents) = 1
        /\ tasks[t].subtasks[1].result.kind = "findings"
        /\ frames[t].i = 2 /\ frames[t].pc = "fetch"
        /\ frames[t].agent = "ResearcherAgent" /\ frames[t].url = OtherUrl

\* The first place of the registry that lists the capability.
FirstCapable(registry, capability) ==
    CHOOSE k \in 1..Len(registry) :
        /\ capability \in registry[k].capabilities
        /\ \A j \in 1..(k - 1) : capability \notin registry[j].capabilities

NoHandlerActs ==
    /\ tasks' = tasks /\ frames' = frames /\ sent' = sent
    /\ agents' = agents /\ lastSeen' = lastSeen /\ updatedAt' = updatedAt
    /\ response' = response /\ now' = now

\* C14: a task id leaves the keys of the task store only in a step of the
\* sweep, and only when the task is completed or failed and was last updated
\* (so also created) more than maxAge ago; the task of a request that still
\* awaits a worker is in the store.
C14_OnlySweepDeletes ==
    [][/\ \A t \in taskKeys : t \notin taskKeys' =>
             /\ NoHandlerActs
             /\ tasks[t].status \in {"completed", "failed"}
             /\ now - updatedAt[t] > maxAge
       /\ \A t \in 1..Len(tasks') :
             tasks'[t].status \in {"pending", "in-progress"} => t \in taskKeys'
       /\ \A t \in 1..Len(tasks') :
             frames'[t].pc \in {"fetch", "json"} => t \in taskKeys'
      ]_vars

\* A completed task was deleted by the sweep.
C14_Witness ==
    \E t \in TaskIds :
        /\ t \notin taskKeys
        /\ tasks[t].status = "completed"
        /\ now - updatedAt[t] > maxAge

\* C15: the registered names of the agents Map and of agentStatus stay,
\* each at its place; a status flag is online or offline; it becomes offline
\* only in a step of the sweep, for a worker last seen more than
\* agentTimeout ago, and that step changes nothing else of the entry.
C15_NeverRemoved ==
    [][/\ Len(agents') >= Len(agents) /\ Len(agentStatus') >= Len(agentStatus)
       /\ \A k \in 1..Len(agents) : agents'[k].name = agents[k].name
       /\ \A k \in 1..Len(agentStatus) :
             /\ agentStatus'[k].name = agentStatus[k].name
             /\ agentStatus'[k].status \in {"online", "offline"}
             /\ (agentStatus[k].status = "online"
                    /\ agentStatus'[k].status = "offline") =>
                   /\ NoHandlerActs
                   /\ now - lastSeen[k] > agentTimeout
                   /\ agentStatus'[k] = [agentStatus[k] EXCEPT !.status = "offline"]
      ]_vars

\* Both workers registered, the one last seen two minutes ago flagged
\* offline, the one seen a minute ago still online after the sweep.
C15_Witness ==
    /\ Len(agentStatus) = 2 /\ Len(agents) = 2
    /\ \E k, j \in 1..2 :
          /\ agentStatus[k].status = "offline" /\ now - lastSeen[k] > agentTimeout
          /\ agentStatus[j].status = "online" /\ now - lastSeen[j] = agentTimeout

\* ------------------------------------------ the Next.js service's claims

\* The stored agents that hold the key a well-formed header carries.
HoldersOf(header) ==
    {k \in 1..Len(storageAgents) :
        /\ header.present /\ header.prefix = "Bearer "
        /\ storageAgents[k].apiKey = header.rest}

\* The sessions that POST /api/sessions/join stored under the id.
JoinedAs(sessionId) ==
    {j \in 1..Len(storageSessions) : storageSessions[j].id = sessionId}

\* C16 as claimed: a GET of the state of a session by the agent that joined
\* it, with the id the join returned, is answered 200 with that session and
\* status waiting.
C16_SessionQueryable ==
    [][\A header \in Headers, sessionId \in SessionIds :
          (/\ ApiState(header, sessionId)
           /\ \E k \in HoldersOf(header), j \in JoinedAs(sessionId) :
                 storageSessions[j].agentId = storageAgents[k].id) =>
              /\ response'.status = 200
              /\ response'.sessionId = sessionId
              /\ response'.sessionStatus = "waiting"]_vars

\* C17 as claimed: a GET by an authenticated agent is answered 404 for an id
\* that no session has, and 403 'Not your session', the session unchanged,
\* for a session another agent joined.
C17_NotYourSession ==
    [][\A header \in Headers, sessionId \in SessionIds :
          (ApiState(header, sessionId) /\ HoldersOf(header) # {}) =>
              IF JoinedAs(sessionId) = {}
              THEN response'.status = 404
              ELSE \A k \in HoldersOf(header), j \in JoinedAs(sessionId) :
                      storageSessions[j].agentId # storageAgents[k].id =>
                          /\ response'.status = 403
                          /\ response'.error = "Not your session"
                          /\ storageSessions' = storageSessions
                          /\ sessions' = sessions]_vars

\* The answer of a protected endpoint to the header: 401 and the storage
\* unchanged unless a stored agent holds the key of a "Bearer " header, and
\* never 401 when one does.
Authenticated(header) ==
    IF HoldersOf(header) = {}
    THEN /\ response'.status = 401
         /\ response'.agentId = 0 /\ response'.sessionId = 0
         /\ storageAgents' = storageAgents
         /\ storageSessions' = storageSessions
         /\ sessions' = sessions
    ELSE response'.status # 401

\* C18: POST /api/test, POST /api/sessions/join and GET
\* /api/sessions/{id}/state answer 401 and change nothing stored when the
\* header is absent, does not start with "Bearer " or carries a key no stored
\* agent holds; with a key that was issued the request is not answered 401
\* and acts as the agent the key was issued to: the test names that agent
\* and the join stores a session of that agent.
C18_Unauthorized ==
    [][/\ \A header \in Headers, body \in TestBodies :
             ApiTest(header, body) =>
                 /\ Authenticated(header)
                 /\ (HoldersOf(header) # {} /\ body.json) =>
                       /\ response'.status = 200
                       /\ \A k \in HoldersOf(header) :
                             response'.agentId = storageAgents[k].id
       /\ \A header \in Headers :
             ApiJoin(header) =>
                 /\ Authenticated(header)
                 /\ HoldersOf(header) # {} =>
                       /\ response'.status = 201
                       /\ \A k \in HoldersOf(header) :
                             storageSessions'[Len(storageSessions')].agentId
                                = storageAgents[k].id
       /\ \A header \in Headers, sessionId \in SessionIds :
             ApiState(header, sessionId) => Authenticated(header)
       /\ \A body \in Bodies :
             (ApiRegister(body) /\ response'.status = 201) =>
                 \A k \in 1..Len(storageAgents') :
                    storageAgents'[k].apiKey = response'.apiKey
                        <=> storageAgents'[k].id = response'.agentId
      ]_vars

\* With two agents and a session stored, a join with a key that nobody holds
\* was answered 401.
C18_Witness ==
    /\ Len(storageAgents) = 2 /\ Len(storageSessions) = 1
    /\ response.endpoint = "/api/sessions/join"
    /\ response.status = 401 /\ response.error = "Invalid API key"

\* C20 as claimed: no agent owns more than one session that is not complete.
C20_OneActiveSession ==
    \A k \in 1..Len(storageAgents) :
        Cardinality({j \in 1..Len(storageSessions) :
                        /\ storageSessions[j].agentId = storageAgents[k].id
                        /\ storageSessions[j].status # "complete"}) <= 1

\* Nothing but the response changes in this step.
OnlyAnswers ==
    /\ UNCHANGED <<agents, tasks, frames, sent, agentStatus, now, updatedAt,
                   lastSeen, taskKeys>>
    /\ UNCHANGED apiVars
    /\ UNCHANGED restVars

\* C19: POST /research without a query, POST /agent/register without name,
\* url or capabilities, and POST /api/auth/register without a name that is a
\* string with a character other than blanks, are answered 400 and change
\* nothing: no task, no registration, no stored agent, no key in the answer.
C19_MissingField ==
    [][/\ \A body \in AnyResearchBodies :
             (body.query = "" /\ PostResearchRequest(body)) =>
                 /\ response'.endpoint = "/research" /\ response'.status = 400
                 /\ OnlyAnswers
       /\ \A body \in AgentRegisterBodies :
             (body.missing # {} /\ PostAgentRegisterRequest(body)) =>
                 /\ response'.endpoint = "/agent/register"
                 /\ response'.status = 400
                 /\ OnlyAnswers
       /\ \A body \in Bodies :
             (/\ body.name.kind # "string" \/ body.name.text \in {"", "   "}
              /\ ApiRegister(body)) =>
                 /\ response'.endpoint = "/api/auth/register"
                 /\ response'.status = 400
                 /\ response'.apiKey = 0 /\ response'.agentId = 0
                 /\ OnlyAnswers
      ]_vars

\* With a task, a worker and an agent stored, a POST /research without a
\* query was answered 400.
C19_Witness ==
    /\ Len(tasks) = 1 /\ Len(agents) = 1 /\ Len(storageAgents) = 1
    /\ response.endpoint = "/research" /\ response.status = 400

\* ------------------------------------------------- headers and sessions

\* The endpoints of the Next.js service.
ApiEndpoints ==
    {"/api/auth/register", "/api/test", "/api/sessions/join",
     "/api/sessions/state", "/api/health"}

\* C21: every response of the Next.js service carries the header
\* X-Agent-Capable: true, the error responses included.
C21_AlwaysCapable ==
    response.endpoint \in ApiEndpoints => response.capable

\* `maxPlayers: 2` of the state the join and the state handlers report.
maxPlayers == 2

\* The agents that have joined a session.
Players == {storageSessions[k].agentId : k \in 1..Len(storageSessions)}

\* C22: a session starts waiting, and once maxPlayers agents have joined a
\* session is active.
C22_BecomesActive ==
    /\ \A k \in 1..Len(storageSessions) :
          storageSessions[k].status \in {"waiting", "active", "complete"}
    /\ Cardinality(Players) >= maxPlayers =>
          \E k \in 1..Len(storageSessions) : storageSessions[k].status = "active"

\* ------------------------------------------------------ the worker's token

\* C23: getToken authenticates again whenever there is no token or fewer
\* than refreshMargin minutes remain before tokenExpiry, and otherwise
\* returns the cached token at once, without a call of authenticate; the
\* token a getToken returns is the current one and its expiry has not
\* passed.
C23_TokenFresh ==
    [][\A c \in Callers :
          /\ GetToken(c) =>
                IF token = 0 \/ tokenExpiry - now < refreshMargin
                THEN calls'[c] = "challenge" /\ returned' = returned
                ELSE /\ calls' = calls
                     /\ returned'[c] = [token |-> token, cached |-> TRUE,
                                        threw |-> FALSE]
          /\ ((GetToken(c) \/ Return(c))
                 /\ calls'[c] = "idle" /\ returned'[c].token # 0) =>
                    /\ returned'[c].token = token
                    /\ tokenExpiry > now
      ]_vars

\* A caller was given the cached token while exactly refreshMargin minutes
\* remained, after a minute in which another caller had authenticated.
C23_Witness ==
    \E c \in Callers :
        /\ returned[c].cached /\ returned[c].token = token
        /\ tokenExpiry - now = refreshMargin
        /\ \E d \in Callers \ {c} : ~returned[d].cached /\ returned[d].token = token

\* ---------------------------------------------- the statuses of a run

\* C24: the status of a subtask changes only from pending to in-progress,
\* from pending to failed when no registered worker lists its capability,
\* from in-progress to failed, and from in-progress to completed in the
\* step in which the body of its worker's 2xx response is read; completed
\* and failed are never left.
C24_SubtaskForward ==
    [][\A t \in 1..Len(tasks') : \A k \in 1..Len(tasks'[t].subtasks) :
          LET old == IF t \in TaskIds THEN tasks[t].subtasks[k].status
                     ELSE "pending"
              new == tasks'[t].subtasks[k].status
          IN old # new =>
                \/ old = "pending" /\ new = "in-progress"
                \/ /\ old = "pending" /\ new = "failed"
                   /\ NoneLists(tasks'[t].subtasks[k].capability)
                \/ old = "in-progress" /\ new = "failed"
                \/ /\ old = "in-progress" /\ new = "completed"
                   /\ frames[t].pc = "json"
                   /\ frames[t].sorted[frames[t].i] = k
      ]_vars

\* An answered task with one subtask completed and the other failed by its
\* worker's answer.
C24_Witness ==
    \E t \in TaskIds :
        /\ frames[t].pc = "done"
        /\ Len(tasks[t].subtasks) = 2
        /\ \E k \in 1..2 : tasks[t].subtasks[k].status = "completed"
        /\ \E k \in 1..2 : /\ tasks[t].subtasks[k].status = "failed"
                            /\ Posted(t, k)

\* C25: a task is created pending and is in-progress when its request first
\* awaits; its status then changes only from in-progress to completed and
\* is never failed; it is in-progress whenever one of its subtasks is
\* in-progress; once it is completed, the task and its subtasks stay as
\* they are.
C25_TaskForward ==
    [][\A t \in 1..Len(tasks') :
          /\ createTask(t, [query |-> tasks'[t].query,
                            depth |-> tasks'[t].depth]).status = "pending"
          /\ tasks'[t].status \in {"in-progress", "completed"}
          /\ (\E k \in 1..Len(tasks'[t].subtasks) :
                 tasks'[t].subtasks[k].status = "in-progress")
                => tasks'[t].status = "in-progress"
          /\ t \in TaskIds =>
                /\ tasks'[t].status # tasks[t].status =>
                      /\ tasks[t].status = "in-progress"
                      /\ tasks'[t].status = "completed"
                /\ tasks[t].status = "completed" => tasks'[t] = tasks[t]
      ]_vars

\* A completed task whose only subtask is completed, with a registration
\* answered after it.
C25_Witness ==
    \E t \in TaskIds :
        /\ tasks[t].status = "completed"
        /\ Len(tasks[t].subtasks) = 1
        /\ tasks[t].subtasks[1].status = "completed"
        /\ Len(agents) = 2

\* The subtasks of task t of the types that subtask k depends on.
DependenciesOf(t, k) ==
    {j \in 1..Len(tasks[t].subtasks) :
        tasks[t].subtasks[j].type \in tasks[t].subtasks[k].dependsOn}

\* C26: a subtask with dependencies, all of them completed, that the loop
\* has gone past was not skipped: it was posted to a worker, or failed
\* because no worker lists its capability.
C26_DependentDelegated ==
    \A t \in TaskIds : \A k \in 1..Len(tasks[t].subtasks) :
        (/\ Passed(t, k)
         /\ DependenciesOf(t, k) # {}
         /\ \A j \in DependenciesOf(t, k) :
               tasks[t].subtasks[j].status = "completed")
            => \/ Posted(t, k)
               \/ tasks[t].subtasks[k].result
                     = ErrorObject("No capable agent available")

\* C27: the response of every completed subtask of a task is an entry of the
\* task's results map, under the name of a worker.
C27_ResultsKept ==
    \A t \in TaskIds : \A k \in 1..Len(tasks[t].subtasks) :
        tasks[t].subtasks[k].status = "completed" =>
            \E n \in AgentNames :
                /\ tasks[t].results[n].present
                /\ tasks[t].results[n].data
                      = frames[t].results[tasks[t].subtasks[k].type]

\* C28: while a delegation is awaited, the payload's previousResults holds
\* for each dependency of the subtask the response that was returned to the
\* same request for a completed subtask of that type of the same task, and
\* nothing else; findings among them are those of the task's own query.
C28_PreviousResults ==
    \A t \in TaskIds :
        frames[t].pc \in {"fetch", "json"} =>
            LET subtask == tasks[t].subtasks[frames[t].sorted[frames[t].i]]
                previous == frames[t].payload.previousResults
            IN \A ty \in Types :
                  IF ty \in subtask.dependsOn
                  THEN /\ previous[ty] = frames[t].results[ty]
                       /\ \E j \in 1..Len(tasks[t].subtasks) :
                             /\ tasks[t].subtasks[j].type = ty
                             /\ tasks[t].subtasks[j].status = "completed"
                             /\ tasks[t].subtasks[j].result = previous[ty]
                       /\ previous[ty].task \in {0, t}
                       /\ previous[ty].kind = "findings"
                             => previous[ty].text = tasks[t].query
                  ELSE previous[ty] = Undefined

\* Two requests with different queries, both awaiting the summarizer, each
\* with the findings of its own task in the payload.
C28_Witness ==
    /\ Len(tasks) = 2
    /\ tasks[1].query # tasks[2].query
    /\ \A t \in 1..2 :
          /\ frames[t].pc = "fetch"
          /\ frames[t].url = SummarizerUrl
          /\ frames[t].payload.previousResults["research"]
                = Json("findings", t, tasks[t].query)

\* ------------------------------------------- concurrent registrations

\* C29: no two stored agents share a name, and a register request whose
\* name is stored when its body has been read is answered 409 and stores
\* nothing, however the concurrent requests interleave.
C29_UniqueNames ==
    [][/\ \A j, k \in 1..Len(storageAgents') :
             storageAgents'[j].name = storageAgents'[k].name => j = k
       /\ \A i \in 1..Len(received) :
             (/\ received[i].json /\ received[i].name.kind = "string"
              /\ \E k \in 1..Len(storageAgents) :
                    storageAgents[k].name = received[i].name.text
              /\ ApiRegisterSettles(i)) =>
                 /\ response'.status = 409
                 /\ response'.apiKey = 0
                 /\ storageAgents' = storageAgents
      ]_vars

\* A name is stored, a request with that name was answered 409 and another
\* request with the same name is awaiting its body.
C29_Witness ==
    /\ Len(storageAgents) = 1
    /\ response.status = 409
    /\ Len(received) = 1
    /\ received[1].json /\ received[1].name.kind = "string"
    /\ received[1].name.text = storageAgents[1].name

\* ------------------------------------------------- unknown task ids

\* Nothing but the error of the call changes in this step.
OnlyThrows ==
    /\ UNCHANGED <<agents, tasks, frames, sent, agentStatus, now, updatedAt,
                   lastSeen, taskKeys, response>>
    /\ UNCHANGED apiVars
    /\ UNCHANGED <<received, authVars>>

\* C30: updateTask, addSubtask, updateSubtask and storeResult called with a
\* task id that is not a key of the tasks Map (never issued, or deleted by
\* the sweep) throw 'Task not found', updateSubtask called with a subtask
\* id the task does not have throws 'Subtask not found', and a call that
\* throws changes no task, no key, no timestamp and no worker entry.
C30_UnknownIdThrows ==
    [][\A taskId \in CallTaskIds :
          /\ (taskId \notin taskKeys /\ CallUpdateTask(taskId, "failed")) =>
                thrown' = "Task not found" /\ OnlyThrows
          /\ (taskId \notin taskKeys /\ CallAddSubtask(taskId, CallSubtask)) =>
                thrown' = "Task not found" /\ OnlyThrows
          /\ (taskId \notin taskKeys
                 /\ CallStoreResult(taskId, "ResearcherAgent", OtherObject)) =>
                thrown' = "Task not found" /\ OnlyThrows
          /\ \A subtaskId \in CallSubtaskIds :
                /\ (/\ taskId \notin taskKeys
                    /\ CallUpdateSubtask(taskId, subtaskId, "completed",
                                         OtherObject)) =>
                      thrown' = "Task not found" /\ OnlyThrows
                /\ (/\ taskId \in taskKeys
                    /\ \A k \in 1..Len(tasks[taskId].subtasks) :
                          tasks[taskId].subtasks[k].id # subtaskId
                    /\ CallUpdateSubtask(taskId, subtaskId, "completed",
                                         OtherObject)) =>
                      thrown' = "Subtask not found" /\ OnlyThrows
      ]_vars

\* A call on a task that the sweep has deleted threw.
C30_Witness ==
    /\ Len(tasks) = 1
    /\ taskKeys = {}
    /\ thrown = "Task not found"

====
